---- MODULE Spec2Model ----
(***************************************************************************)
(* Patient Access analysis server (src/server.mjs).                        *)
(*                                                                         *)
(* The file holds two variants of the same server: variant 1 (lines 1-189, *)
(* parse failure is a hard 500) and variant 2 (lines 190-373, parse        *)
(* failure degrades to a synthetic analysis object).  A running process is *)
(* one of the two; `variant` is fixed at start-up.                         *)
(*                                                                         *)
(* Strings are sequences of lexical units, so that interpolation,          *)
(* containment and JSON parsing are computed rather than assumed.          *)
(***************************************************************************)
EXTENDS Integers, Sequences, FiniteSets, TLC

\* ------------------------------------------------------------------ bounds

\* Number of request slots in the concurrent specification.
NumReq == 2
\* Longest completion text (in JSON lexemes) enumerated exhaustively.
MaxTextLen == 3

Reqs == 1 .. NumReq

\* ------------------------------------------------------ JavaScript values

JSUndefined == [t |-> "undefined", s |-> <<>>, n |-> 0]
JSNull == [t |-> "null", s |-> <<>>, n |-> 0]
JSString(str) == [t |-> "string", s |-> str, n |-> 0]
JSNumber(num) == [t |-> "number", s |-> <<>>, n |-> num]
\* A JSON object; s is the text its string conversion yields.
JSPlainObject == [t |-> "object", s |-> <<"[object Object]">>, n |-> 0]
\* A JSON object such as {"toString": 1}: its toString is not callable, so
\* string conversion throws a TypeError (s is empty: there is no text).
JSOpaqueObject == [t |-> "object", s |-> <<>>, n |-> 0]

\* ToBoolean, as used by `!x` and `x || y`.
Truthy(v) ==
  CASE v.t = "undefined" -> FALSE
    [] v.t = "null" -> FALSE
    [] v.t = "string" -> v.s # <<>>
    [] v.t = "number" -> v.n # 0
    [] OTHER -> TRUE

\* a || b
OrElse(a, b) == IF Truthy(a) THEN a ELSE b

RECURSIVE Digits(_)
\* Number::toString for a non-negative integer.
Digits(num) ==
  LET d == <<"0", "1", "2", "3", "4", "5", "6", "7", "8", "9">>[(num % 10) + 1]
  IN IF num < 10 THEN <<d>> ELSE Digits(num \div 10) \o <<d>>

\* Whether `${v}` completes; it throws for an object that cannot be
\* converted to a primitive.
CanInterpolate(v) == v # JSOpaqueObject

\* The text `${v}` produces when it completes.
ToStr(v) ==
  CASE v.t = "string" -> v.s
    [] v.t = "number" -> Digits(v.n)
    [] v.t = "undefined" -> <<"undefined">>
    [] v.t = "null" -> <<"null">>
    [] OTHER -> v.s

\* sub occurs in str as a contiguous run.
Contains(str, sub) ==
  \E i \in 0 .. (Len(str) - Len(sub)) :
    \A j \in 1 .. Len(sub) : str[i + j] = sub[j]

EndsWith(str, suf) ==
  /\ Len(suf) <= Len(str)
  /\ \A j \in 1 .. Len(suf) : str[Len(str) - Len(suf) + j] = suf[j]

\* ------------------------------------------------------------- JSON.parse

JVal(t, s, kids) == [t |-> t, s |-> s, kids |-> kids]
JNullV == JVal("null", <<>>, <<>>)
JObject(members) == JVal("object", <<>>, members)
JMember(key, v) == JVal("member", key, <<v>>)

\* Lexemes a completion text is made of: punctuation, null, the number 1,
\* the string "k", and "x" for any lexeme that is not JSON (a bare word, a
\* markdown fence, ...).
Lexemes == {"{", "}", "[", "]", ":", ",", "null", "1", "\"k\"", "x"}
\* The lexemes of the texts enumerated exhaustively.
ShortLexemes == {"{", "}", "[", "]", "x"}

PFail == [ok |-> FALSE, v |-> JNullV, next |-> 0]
POk(v, next) == [ok |-> TRUE, v |-> v, next |-> next]

RECURSIVE ParseValue(_, _)
RECURSIVE ParseElements(_, _, _)
RECURSIVE ParseMembers(_, _, _)

ParseValue(text, i) ==
  IF i > Len(text) THEN PFail
  ELSE CASE text[i] = "null" -> POk(JNullV, i + 1)
         [] text[i] = "1" -> POk(JVal("number", <<"1">>, <<>>), i + 1)
         [] text[i] = "\"k\"" -> POk(JVal("string", <<"k">>, <<>>), i + 1)
         [] text[i] = "[" ->
              IF i + 1 <= Len(text) /\ text[i + 1] = "]"
              THEN POk(JVal("array", <<>>, <<>>), i + 2)
              ELSE ParseElements(text, i + 1, <<>>)
         [] text[i] = "{" ->
              IF i + 1 <= Len(text) /\ text[i + 1] = "}"
              THEN POk(JObject(<<>>), i + 2)
              ELSE ParseMembers(text, i + 1, <<>>)
         [] OTHER -> PFail

ParseElements(text, i, acc) ==
  LET r == ParseValue(text, i)
  IN IF ~r.ok \/ r.next > Len(text) THEN PFail
     ELSE IF text[r.next] = "]"
          THEN POk(JVal("array", <<>>, Append(acc, r.v)), r.next + 1)
          ELSE IF text[r.next] = ","
               THEN ParseElements(text, r.next + 1, Append(acc, r.v))
               ELSE PFail

ParseMembers(text, i, acc) ==
  IF i + 1 > Len(text) \/ text[i] # "\"k\"" \/ text[i + 1] # ":" THEN PFail
  ELSE LET r == ParseValue(text, i + 2)
       IN IF ~r.ok \/ r.next > Len(text) THEN PFail
          ELSE IF text[r.next] = "}"
               THEN POk(JObject(Append(acc, JMember(<<"k">>, r.v))), r.next + 1)
               ELSE IF text[r.next] = ","
                    THEN ParseMembers(text, r.next + 1,
                                      Append(acc, JMember(<<"k">>, r.v)))
                    ELSE PFail

\* JSON.parse(text): ok = FALSE stands for the SyntaxError it throws.
JSONparse(text) ==
  LET r == ParseValue(text, 1)
  IN IF r.ok /\ r.next = Len(text) + 1
     THEN [ok |-> TRUE, v |-> r.v]
     ELSE [ok |-> FALSE, v |-> JNullV]

\* -------------------------------------------------------- request bodies

\* req.body as left by express.json(): undefined, or a JSON object.
NoBody ==
  [t |-> "undefined", callType |-> JSUndefined, persona |-> JSUndefined,
   notes |-> JSUndefined, goal |-> JSUndefined]
BodyOf(callType, persona, notes, goal) ==
  [t |-> "object", callType |-> callType, persona |-> persona,
   notes |-> notes, goal |-> goal]

\* const { callType, persona, notes, goal } = req.body || {};
Destructure(b) == IF b.t = "object" THEN b ELSE NoBody

CallTypeValues ==
  {JSUndefined, JSNull, JSString(<<>>), JSNumber(0), JSString(<<"a">>),
   JSPlainObject, JSOpaqueObject}
NotesValues == {JSUndefined, JSString(<<>>), JSString(<<"b">>), JSOpaqueObject}
PersonaValues == {JSUndefined, JSString(<<>>), JSString(<<"p">>), JSOpaqueObject}
GoalValues == {JSUndefined, JSString(<<"g">>), JSOpaqueObject}

Bodies ==
  {NoBody} \cup
  {BodyOf(c, p, n, g) : c \in CallTypeValues, p \in PersonaValues,
                        n \in NotesValues, g \in GoalValues}

\* The few bodies the concurrent specification draws from.
ConcBodies ==
  {NoBody,
   BodyOf(JSString(<<"a">>), JSUndefined, JSString(<<"b">>), JSUndefined),
   BodyOf(JSString(<<"a">>), JSString(<<"p">>), JSString(<<"b">>), JSOpaqueObject)}

\* --------------------------------------------------------------- prompts

DefaultPersona == <<"General Stanford Patient Access leader">>
DefaultGoal == <<"Optimize access and experience while protecting resources.">>

\* The fixed system instruction of each variant.
SystemPrompt(v) ==
  IF v = 1 THEN <<"systemPrompt (server.mjs)">> ELSE <<"systemPrompt (server.js)">>

UserPromptNoNotes(callType, persona, notes, goal) ==
  <<"CALL TYPE: ">> \o ToStr(callType)
    \o <<"PERSONA (primary audience for explanation): ">>
    \o ToStr(OrElse(persona, JSString(DefaultPersona)))
    \o <<"GOAL: ">> \o ToStr(OrElse(goal, JSString(DefaultGoal)))
    \o <<"CALL / SCENARIO NOTES:">>
    \o <<"Return ONLY the JSON object, no backticks, no markdown, no extra text.">>

\* The template literal userPrompt.
UserPrompt(callType, persona, notes, goal) ==
  <<"CALL TYPE: ">> \o ToStr(callType)
    \o <<"PERSONA (primary audience for explanation): ">>
    \o ToStr(OrElse(persona, JSString(DefaultPersona)))
    \o <<"GOAL: ">> \o ToStr(OrElse(goal, JSString(DefaultGoal)))
    \o <<"CALL / SCENARIO NOTES:">> \o ToStr(notes)
    \o <<"Return ONLY the JSON object, no backticks, no markdown, no extra text.">>

\* Whether evaluating the userPrompt template completes.
PromptComposes(b) ==
  /\ CanInterpolate(b.callType)
  /\ CanInterpolate(OrElse(b.persona, JSString(DefaultPersona)))
  /\ CanInterpolate(OrElse(b.goal, JSString(DefaultGoal)))
  /\ CanInterpolate(b.notes)

Message(role, content) == [role |-> role, content |-> content]

\* messages: [{role: "system", ...}, {role: "user", ...}]
Messages(v, b) ==
  <<Message("system", SystemPrompt(v)),
    Message("user", UserPrompt(b.callType, b.persona, b.notes, b.goal))>>

\* ------------------------------------------------------------ validation

InvalidBothRequired(callType, notes) == ~Truthy(callType) /\ ~Truthy(notes)

\* if (!callType || !notes)
Invalid(callType, notes) == ~Truthy(callType) \/ ~Truthy(notes)

\* ------------------------------------------------------------- responses

NoAnalysis == JVal("none", <<>>, <<>>)

NoResponse ==
  [kind |-> "none", status |-> 0, keys |-> {}, success |-> FALSE,
   error |-> <<>>, analysis |-> NoAnalysis]

\* res.status(code).json({ success: false, error })
Failure(code, error) ==
  [kind |-> "json", status |-> code, keys |-> {"success", "error"},
   success |-> FALSE, error |-> error, analysis |-> NoAnalysis]

\* res.json({ success: true, analysis })
Success(analysis) ==
  [kind |-> "json", status |-> 200, keys |-> {"success", "analysis"},
   success |-> TRUE, error |-> <<>>, analysis |-> analysis]

\* What the framework's default error handler sends when it is handed the
\* rejection of an async handler.
ErrorPage ==
  [kind |-> "html", status |-> 500, keys |-> {}, success |-> FALSE,
   error |-> <<>>, analysis |-> NoAnalysis]

RequiredMessage == <<"callType and notes are required.">>
NotJsonMessage == <<"Model output was not valid JSON.">>
FallbackMessage == <<"Failed to generate analysis.">>

\* ----------------------------------------------------------- completions

NoCompletion == [shape |-> "none", content |-> JSUndefined]
CompletionWith(content) == [shape |-> "content", content |-> content]

RECURSIVE SeqsUpTo(_)
SeqsUpTo(k) ==
  IF k = 0 THEN {<<>>}
  ELSE LET shorter == SeqsUpTo(k - 1)
       IN shorter \cup {Append(t, x) : t \in shorter, x \in ShortLexemes}

\* Further texts: the scalars, arrays of scalars, a one-member object, a
\* nested array, an object with a trailing comma, prose around an object.
SampleTexts ==
  {<<"null">>, <<"1">>, <<"\"k\"">>, <<"[", "null", "]">>,
   <<"[", "1", ",", "\"k\"", "]">>,
   <<"{", "\"k\"", ":", "1", "}">>,
   <<"{", "\"k\"", ":", "[", "1", ",", "null", "]", "}">>,
   <<"{", "\"k\"", ":", "1", ",", "}">>,
   <<"x", "{", "\"k\"", ":", "1", "}">>}

Texts == SeqsUpTo(MaxTextLen) \cup SampleTexts

\* What the awaited create() call can resolve to.  shape tells how far
\* completion.choices?.[0]?.message?.content reaches.
Completions ==
  {[shape |-> sh, content |-> JSUndefined] :
      sh \in {"noChoices", "emptyChoices", "noMessage"}}
    \cup {CompletionWith(JSUndefined), CompletionWith(JSNull)}
    \cup {CompletionWith(JSString(t)) : t \in Texts}

ConcCompletions ==
  {CompletionWith(JSNull),
   CompletionWith(JSString(<<"{", "}">>)),
   CompletionWith(JSString(<<"x">>)),
   CompletionWith(JSString(<<"x", "x">>))}

\* completion.choices?.[0]?.message?.content
FirstContent(c) == IF c.shape = "content" THEN c.content ELSE JSUndefined

RawTextNoDefault(c) == ToStr(FirstContent(c))

\* const raw = completion.choices?.[0]?.message?.content || "{}";
RawText(c) == OrElse(FirstContent(c), JSString(<<"{", "}">>)).s

FallbackAnalysis(raw) ==
  JObject(<<JMember(<<"summary">>,
                    JVal("string",
                         <<"Model returned non-JSON output from OpenAI.">>,
                         <<>>)),
            JMember(<<"raw">>, JVal("string", raw, <<>>))>>)

ParseFailureByLength(v, raw) ==
  IF Len(raw) = 1 THEN Failure(500, NotJsonMessage)
  ELSE Success(FallbackAnalysis(raw))

\* The inner catch (err) block around JSON.parse, with what follows it.
ParseFailure(v, raw) ==
  IF v = 1 THEN Failure(500, NotJsonMessage)
  ELSE Success(FallbackAnalysis(raw))

\* JSON.parse(raw) and the response built from its result.
ParsedResponse(v, raw) ==
  LET p == JSONparse(raw)
  IN IF p.ok THEN Success(p.v) ELSE ParseFailure(v, raw)

\* ---------------------------------------------------------------- errors

\* A thrown value.  t is its JavaScript type; the other fields are what the
\* handler reads from it: error.status, error.response.status,
\* error.response.data.error.message, error.error.message, error.message
\* (JSUndefined where the path does not lead anywhere).
ErrorValue(t, status, responseStatus, responseMessage, errorMessage, message) ==
  [t |-> t, status |-> status, responseStatus |-> responseStatus,
   responseMessage |-> responseMessage, errorMessage |-> errorMessage,
   message |-> message]

NoError ==
  ErrorValue("none", JSUndefined, JSUndefined, JSUndefined, JSUndefined,
             JSUndefined)
\* throw null / throw undefined / throw "text"
Nullish(t) ==
  ErrorValue(t, JSUndefined, JSUndefined, JSUndefined, JSUndefined,
             JSUndefined)
\* The TypeError a template literal throws on an unconvertible object.
ConversionError ==
  ErrorValue("object", JSUndefined, JSUndefined, JSUndefined, JSUndefined,
             JSString(<<"Cannot convert object to primitive value">>))

StatusValues == {JSUndefined, JSNumber(429)}
ResponseStatusValues == {JSUndefined, JSNumber(503)}

\* What the awaited create() call can reject with.
Errors ==
  {Nullish("null"), Nullish("undefined"), Nullish("string")}
    \cup {ErrorValue("object", st, rs, JSString(<<"provider">>), em, m) :
            st \in StatusValues, rs \in ResponseStatusValues,
            em \in {JSUndefined, JSString(<<"nested">>)},
            m \in {JSUndefined, JSString(<<"generic">>)}}
    \cup {ErrorValue("object", st, rs, rm, em, m) :
            st \in StatusValues, rs \in ResponseStatusValues,
            rm \in {JSUndefined, JSString(<<>>)},
            em \in {JSUndefined, JSString(<<>>), JSString(<<"nested">>)},
            m \in {JSUndefined, JSString(<<>>), JSString(<<"generic">>)}}

ConcErrors ==
  {Nullish("null"),
   ErrorValue("object", JSNumber(429), JSUndefined, JSUndefined, JSUndefined,
              JSString(<<"generic">>))}

\* Whether the catch block itself throws: both variants read error.message
\* without optional chaining, a TypeError on null and undefined.
CatchThrows(e) == e.t \in {"null", "undefined"}

\* const status = error?.status || error?.response?.status;  (variant 1)
UpstreamStatus(e) == OrElse(e.status, e.responseStatus)

SelectMessageGenericFirst(v, e) ==
  OrElse(e.message,
         OrElse(e.responseMessage, JSString(FallbackMessage)))

\* The `||` chain that picks the message, per variant.
SelectMessage(v, e) ==
  IF v = 1
  THEN OrElse(e.responseMessage,
              OrElse(e.errorMessage,
                     OrElse(e.message, JSString(FallbackMessage))))
  ELSE OrElse(e.responseMessage,
              OrElse(e.message, JSString(FallbackMessage)))

\* The 500 the outer catch block sends.
CatchResponse(v, e) ==
  IF v = 1
  THEN Failure(500,
               <<"OpenAI error (">>
                 \o ToStr(OrElse(UpstreamStatus(e), JSString(<<"unknown">>)))
                 \o <<"): ">> \o ToStr(SelectMessage(v, e)))
  ELSE Failure(500, SelectMessage(v, e).s)

\* ----------------------------------------------------------------- state

VARIABLES
  variant,     \* which of the two server files this process runs
  runtime,     \* what an escaped rejection of an async handler leads to
  alive,       \* the process is running
  pc,          \* per request: position in the handler
  body,        \* per request: req.body
  calls,       \* per request: calls made to client.chat.completions.create
  messages,    \* per request: the messages of the call
  settled,     \* per request: how the awaited call settled
  completion,  \* per request: the value the call resolved to
  thrown,      \* per request: the value caught by the outer catch
  raw,         \* per request: the text handed to JSON.parse
  response,    \* per request: the response sent
  sent,        \* per request: number of responses sent
  escaped      \* per request: a rejection left the handler

vars ==
  <<variant, runtime, alive, pc, body, calls, messages, settled, completion,
    thrown, raw, response, sent, escaped>>

\* hang: the rejection is only reported and the request is never answered;
\* crash: the unhandled rejection ends the process;
\* errorPage: the framework forwards it to its default error handler.
Runtimes == {"hang", "crash", "errorPage"}

NoRaw == <<"(not parsed)">>

Init ==
  /\ variant \in {1, 2}
  /\ runtime \in Runtimes
  /\ alive = TRUE
  /\ pc = [r \in Reqs |-> "idle"]
  /\ body = [r \in Reqs |-> NoBody]
  /\ calls = [r \in Reqs |-> 0]
  /\ messages = [r \in Reqs |-> <<>>]
  /\ settled = [r \in Reqs |-> "no"]
  /\ completion = [r \in Reqs |-> NoCompletion]
  /\ thrown = [r \in Reqs |-> NoError]
  /\ raw = [r \in Reqs |-> NoRaw]
  /\ response = [r \in Reqs |-> NoResponse]
  /\ sent = [r \in Reqs |-> 0]
  /\ escaped = [r \in Reqs |-> FALSE]

\* res.status(...).json(...) / res.json(...), ending the handler.
Respond(r, resp) ==
  /\ response' = [response EXCEPT ![r] = resp]
  /\ sent' = [sent EXCEPT ![r] = @ + 1]
  /\ pc' = [pc EXCEPT ![r] = "done"]

\* ---------------------------------------------------------------- actions

\* The request reaches the handler; line 47 / 234.
Receive(r, b) ==
  /\ alive
  /\ pc[r] = "idle"
  /\ body' = [body EXCEPT ![r] = b]
  /\ pc' = [pc EXCEPT ![r] = "validate"]
  /\ UNCHANGED <<variant, runtime, alive, calls, messages, settled,
                 completion, thrown, raw, response, sent, escaped>>

\* if (!callType || !notes) return res.status(400).json(...)
Validate(r) ==
  /\ alive
  /\ pc[r] = "validate"
  /\ LET b == Destructure(body[r])
     IN IF Invalid(b.callType, b.notes)
        THEN Respond(r, Failure(400, RequiredMessage))
        ELSE /\ pc' = [pc EXCEPT ![r] = "compose"]
             /\ UNCHANGED <<response, sent>>
  /\ UNCHANGED <<variant, runtime, alive, body, calls, messages, settled,
                 completion, thrown, raw, escaped>>

\* The two template literals at the head of the try block; a throw
\* enters the outer catch.
Compose(r) ==
  /\ alive
  /\ pc[r] = "compose"
  /\ LET b == Destructure(body[r])
     IN IF PromptComposes(b)
        THEN /\ messages' = [messages EXCEPT ![r] = Messages(variant, b)]
             /\ pc' = [pc EXCEPT ![r] = "invoke"]
             /\ UNCHANGED thrown
        ELSE /\ thrown' = [thrown EXCEPT ![r] = ConversionError]
             /\ pc' = [pc EXCEPT ![r] = "catch"]
             /\ UNCHANGED messages
  /\ UNCHANGED <<variant, runtime, alive, body, calls, settled, completion,
                 raw, response, sent, escaped>>

\* await client.chat.completions.create({...}): the call is issued and the
\* handler suspends.
Invoke(r) ==
  /\ alive
  /\ pc[r] = "invoke"
  /\ calls' = [calls EXCEPT ![r] = @ + 1]
  /\ pc' = [pc EXCEPT ![r] = "await"]
  /\ UNCHANGED <<variant, runtime, alive, body, messages, settled,
                 completion, thrown, raw, response, sent, escaped>>

\* The call resolves with a completion.
Resolve(r, c) ==
  /\ alive
  /\ pc[r] = "await"
  /\ settled' = [settled EXCEPT ![r] = "resolved"]
  /\ completion' = [completion EXCEPT ![r] = c]
  /\ pc' = [pc EXCEPT ![r] = "parse"]
  /\ UNCHANGED <<variant, runtime, alive, body, calls, messages, thrown,
                 raw, response, sent, escaped>>

\* The call rejects; control enters the outer catch.
Reject(r, e) ==
  /\ alive
  /\ pc[r] = "await"
  /\ settled' = [settled EXCEPT ![r] = "rejected"]
  /\ thrown' = [thrown EXCEPT ![r] = e]
  /\ pc' = [pc EXCEPT ![r] = "catch"]
  /\ UNCHANGED <<variant, runtime, alive, body, calls, messages, completion,
                 raw, response, sent, escaped>>

\* From `const raw = ...` to the response.
Parse(r) ==
  /\ alive
  /\ pc[r] = "parse"
  /\ raw' = [raw EXCEPT ![r] = RawText(completion[r])]
  /\ Respond(r, ParsedResponse(variant, RawText(completion[r])))
  /\ UNCHANGED <<variant, runtime, alive, body, calls, messages, settled,
                 completion, thrown, escaped>>

\* The outer catch block.  When it throws itself, the async handler's
\* promise rejects with nobody awaiting it.
Catch(r) ==
  /\ alive
  /\ pc[r] = "catch"
  /\ IF ~CatchThrows(thrown[r])
     THEN /\ Respond(r, CatchResponse(variant, thrown[r]))
          /\ UNCHANGED <<alive, escaped>>
     ELSE /\ escaped' = [escaped EXCEPT ![r] = TRUE]
          /\ IF runtime = "errorPage"
             THEN /\ Respond(r, ErrorPage)
                  /\ UNCHANGED alive
             ELSE /\ alive' = (runtime # "crash")
                  /\ pc' = [q \in Reqs |->
                             IF q = r THEN "unhandled"
                             ELSE IF runtime = "crash"
                                       /\ pc[q] \notin {"idle", "done", "unhandled"}
                                  THEN "aborted"
                                  ELSE pc[q]]
                  /\ UNCHANGED <<response, sent>>
  /\ UNCHANGED <<variant, runtime, body, calls, messages, settled,
                 completion, thrown, raw>>

\* ---------------------------------------------------------- specifications

Step(r, bodies, completions, errors) ==
  \/ \E b \in bodies : Receive(r, b)
  \/ Validate(r)
  \/ Compose(r)
  \/ Invoke(r)
  \/ \E c \in completions : Resolve(r, c)
  \/ \E e \in errors : Reject(r, e)
  \/ Parse(r)
  \/ Catch(r)

\* One request, over the full input domain.
Next == Step(1, Bodies, Completions, Errors)

Spec == Init /\ [][Next]_vars

\* Several requests in flight, over a small input domain.
NextConc == \E r \in Reqs : Step(r, ConcBodies, ConcCompletions, ConcErrors)

SpecConc == Init /\ [][NextConc]_vars

\* ---------------------------------------------------------------- claims

\* A field that is absent, or present with a falsy value.
Missing(v) ==
  \/ v.t \in {"undefined", "null"}
  \/ v = JSString(<<>>)
  \/ v = JSNumber(0)

\* A non-empty string.
Supplied(v) == v.t = "string" /\ Len(v.s) > 0

\* C1: a request whose body lacks callType, lacks notes, or lacks both
\* (absent or falsy) is answered with status 400 and the body
\* {success: false, error: "callType and notes are required."}.
C1_MissingFieldsRejected ==
  \A r \in Reqs :
    (/\ pc[r] \notin {"idle", "validate"}
     /\ Missing(body[r].callType) \/ Missing(body[r].notes))
    => /\ pc[r] = "done"
       /\ sent[r] = 1
       /\ response[r].kind = "json"
       /\ response[r].status = 400
       /\ response[r].keys = {"success", "error"}
       /\ response[r].success = FALSE
       /\ response[r].error = <<"callType and notes are required.">>

\* A request with callType present and only notes missing was rejected.
C1_Witness ==
  \E r \in Reqs :
    /\ pc[r] = "done"
    /\ response[r].status = 400
    /\ Supplied(body[r].callType)
    /\ Missing(body[r].notes)

\* C2: over the life of a request the external capability is called
\* exactly once when callType and notes are both present and never when
\* validation fails, on every path.
C2_ExactlyOneCallWhenPresent ==
  \A r \in Reqs :
    pc[r] = "done"
    => calls[r] = (IF ~Missing(body[r].callType) /\ ~Missing(body[r].notes)
                   THEN 1 ELSE 0)

\* The first choice's message content is absent (no choice, no message, no
\* content, or null content).
ContentAbsent(c) ==
  c.shape # "content" \/ c.content.t \in {"undefined", "null"}

\* The answer to a call that returned normally has been sent.
Answered(r) == pc[r] = "done" /\ settled[r] = "resolved"

C3_ParsedBecomesAnalysis(r) ==
  JSONparse(raw[r]).ok
  => /\ response[r].kind = "json"
     /\ response[r].status = 200
     /\ response[r].keys = {"success", "analysis"}
     /\ response[r].success = TRUE
     /\ response[r].analysis = JSONparse(raw[r]).v

\* C3 as stated: the text parsed is the first choice's content, or "{}"
\* when the content is absent; when it parses, the response is 200 with
\* {success: true, analysis: V}, V the parsed value.
C3_Original ==
  \A r \in Reqs :
    Answered(r)
    => /\ raw[r] = (IF ContentAbsent(completion[r]) THEN <<"{", "}">>
                    ELSE completion[r].content.s)
       /\ C3_ParsedBecomesAnalysis(r)

\* C3 amended: "{}" is also what is parsed when the content is the empty
\* string; absent or empty content yields analysis equal to the empty
\* object.
C3_ParsedTextAndAnalysis ==
  \A r \in Reqs :
    Answered(r)
    => LET c == completion[r]
           blank == ContentAbsent(c) \/ c.content.s = <<>>
       IN /\ raw[r] = (IF blank THEN <<"{", "}">> ELSE c.content.s)
          /\ C3_ParsedBecomesAnalysis(r)
          /\ blank => /\ response[r].success = TRUE
                      /\ response[r].analysis = JVal("object", <<>>, <<>>)

\* A one-member object returned by the capability was relayed.
C3_Witness ==
  \E r \in Reqs :
    /\ Answered(r)
    /\ completion[r].content = JSString(<<"{", "\"k\"", ":", "1", "}">>)
    /\ response[r].status = 200
    /\ Len(response[r].analysis.kids) = 1

\* The call returned text that JSON.parse rejected, and the answer is out.
NonJson(r) == Answered(r) /\ ~JSONparse(raw[r]).ok

HardFailure(r) ==
  /\ response[r].kind = "json"
  /\ response[r].status = 500
  /\ response[r].success = FALSE
  /\ response[r].error = <<"Model output was not valid JSON.">>

SoftFallback(r) ==
  /\ response[r].kind = "json"
  /\ response[r].status = 200
  /\ response[r].success = TRUE
  /\ response[r].analysis.t = "object"
  /\ \E i \in 1 .. Len(response[r].analysis.kids) :
       LET m == response[r].analysis.kids[i]
       IN /\ m.s = <<"raw">>
          /\ m.kids[1] = JVal("string", completion[r].content.s, <<>>)

\* C4: non-JSON text is answered by one degrade policy throughout: always
\* 500 with the fixed message, or always 200 with a synthetic analysis
\* whose raw field is the text; never a mix, never an unhandled fault.
C4_OneDegradePolicy ==
  /\ \/ \A r \in Reqs : NonJson(r) => HardFailure(r)
     \/ \A r \in Reqs : NonJson(r) => SoftFallback(r)
  /\ \A r \in Reqs :
       settled[r] = "resolved" => ~escaped[r] /\ pc[r] # "unhandled"

\* Two requests got different non-JSON texts and both were answered.
C4_Witness ==
  \E r1, r2 \in Reqs :
    /\ r1 # r2
    /\ NonJson(r1)
    /\ NonJson(r2)
    /\ raw[r1] # raw[r2]

\* C5: when the call rejects with an error carrying a message, the
\* response is 500 with success false, and its error string contains the
\* upstream message and, when the upstream status is known, the status.
C5_ErrorCarriesMessageAndStatus ==
  \A r \in Reqs :
    (/\ pc[r] = "done"
     /\ settled[r] = "rejected"
     /\ thrown[r].t = "object"
     /\ Supplied(thrown[r].message))
    => /\ response[r].kind = "json"
       /\ response[r].status = 500
       /\ response[r].success = FALSE
       /\ \E m \in {thrown[r].responseMessage, thrown[r].errorMessage,
                    thrown[r].message} :
            Supplied(m) /\ Contains(response[r].error, m.s)
       /\ thrown[r].status.t = "number"
          => Contains(response[r].error, Digits(thrown[r].status.n))

\* C6: whatever the call does, the handler sends exactly one response, a
\* JSON body with a boolean success field; nothing escapes the handler and
\* no request is left unanswered.
C6_AlwaysOneJsonResponse ==
  \A r \in Reqs :
    /\ ~escaped[r]
    /\ pc[r] # "unhandled"
    /\ sent[r] <= 1
    /\ pc[r] = "done"
       => /\ sent[r] = 1
          /\ response[r].kind = "json"
          /\ "success" \in response[r].keys
          /\ response[r].success \in BOOLEAN

\* C7: with requests in flight concurrently, each response depends only on
\* the request's own body and the outcome of its own call: every valid
\* request makes its own call, and no request alters what another gets.
C7_RequestsIndependent ==
  /\ \A r \in Reqs : pc[r] # "aborted"
  /\ \A r \in Reqs : settled[r] # "no" => calls[r] = 1
  /\ \A r1, r2 \in Reqs :
       (/\ pc[r1] = "done" /\ pc[r2] = "done"
        /\ body[r1] = body[r2]
        /\ settled[r1] = settled[r2]
        /\ completion[r1] = completion[r2]
        /\ thrown[r1] = thrown[r2])
       => response[r1] = response[r2]

C9_AnalysisIsObject ==
  \A r \in Reqs :
    (pc[r] = "done" /\ response[r].success) => response[r].analysis.t = "object"

\* The message the precedence of each variant picks from a thrown error:
\* the provider's nested message (error.response.data.error.message, then,
\* in variant 1, error.error.message), else the generic error.message,
\* else the literal fallback.
ExpectedMessage(e) ==
  IF Supplied(e.responseMessage) THEN e.responseMessage.s
  ELSE IF variant = 1 /\ Supplied(e.errorMessage) THEN e.errorMessage.s
       ELSE IF Supplied(e.message) THEN e.message.s
            ELSE <<"Failed to generate analysis.">>

====
